---- MODULE Spec2Model ----
(***************************************************************************)
(* Model of src/core/commands.py: ApiCommandBuilder and the five command   *)
(* handlers (AddStatement, AddLabelDescriptionOrAlias, AddSitelink,        *)
(* CreateItem, RemoveStatement) together with parser_value_to_api_value.   *)
(* Python dicts are functions with string domains; a missing key is a key  *)
(* outside the DOMAIN.                                                     *)
(***************************************************************************)
EXTENDS Integers, Sequences, FiniteSets, TLC

VARIABLES
    command,              \* the BatchCommand: [action, json]
    entry,                \* "build_and_send", or the class constructed directly
    hasToken,             \* Client.from_username finds a Token for the batch's user
    property_data_types,  \* what client.get_property_data_type reports
    all_statements,       \* what client.get_statements reports for the entity
    pc,                   \* position of the run
    api_command,          \* class whose constructor was entered, or "none"
    handler,              \* attributes of the constructed instance (self)
    error,                \* the exception that propagated to the caller
    sent_body,            \* full_body local of RemoveStatement.send
    responses,            \* responses local of RemoveStatement.send
    result,               \* value returned by send
    calls,                \* log of mutating client operations invoked
    deleted               \* statement ids the remote API has deleted

vars == <<command, entry, hasToken, property_data_types, all_statements, pc,
          api_command, handler, error, sent_body, responses, result, calls,
          deleted>>

----------------------------------------------------------------------------
(* Bounds *)

MaxStatements == 2
MaxQualifiers == 1
MaxReferences == 1

----------------------------------------------------------------------------
(* Values *)

EmptyDict == [k \in {} |-> k]

NoError == [name |-> "none"]

NoResult == "NoResult"

Contents == {"X1", "X2"}

DataTypes == {"string", "quantity"}

SpecialTypes == {"novalue", "somevalue"}

Responses == {"r1", "r2"}

\* parsed values as the parser hands them over: a data type and the raw value
ParsedValues ==
    [type : DataTypes, value : Contents]
        \cup {[type |-> t, value |-> t] : t \in SpecialTypes}

\* values as the API reports them on statements
ApiValues ==
    {[type |-> t] : t \in SpecialTypes}
        \cup {[type |-> "value", content |-> c] : c \in Contents}

SeqsUpTo(S, n) == UNION {[1..k -> S] : k \in 0..n}

----------------------------------------------------------------------------
(* parser_value_to_api_value *)

\* variant: the content is kept for novalue and somevalue
parser_value_to_api_value_keepContent(parser_value) ==
    IF parser_value["type"] \in {"novalue", "somevalue"}
    THEN [type |-> parser_value["type"], content |-> parser_value["value"]]
    ELSE [type |-> "value", content |-> parser_value["value"]]

\* variant: the two special tags are exchanged
parser_value_to_api_value_swap(parser_value) ==
    IF parser_value["type"] \in {"novalue", "somevalue"}
    THEN [type |-> IF parser_value["type"] = "novalue" THEN "somevalue" ELSE "novalue"]
    ELSE [type |-> "value", content |-> parser_value["value"]]

parser_value_to_api_value(parser_value) ==
    IF parser_value["type"] \in {"novalue", "somevalue"}
    THEN [type |-> parser_value["type"]]
    ELSE [type |-> "value", content |-> parser_value["value"]]

----------------------------------------------------------------------------
(* Commands *)

ACTION_ADD == "add"
ACTION_CREATE == "create"
ACTION_REMOVE == "remove"
ACTION_MERGE == "merge"

Actions == {ACTION_ADD, ACTION_CREATE, ACTION_REMOVE, ACTION_MERGE}

Summaries == {EmptyDict, [summary |-> "s1"]}

Parts == {[property |-> "P2", value |-> v] :
            v \in {[type |-> "novalue", value |-> "novalue"],
                   [type |-> "string", value |-> "X1"]}}

Qualifiers ==
    {EmptyDict} \cup {[qualifiers |-> q] : q \in SeqsUpTo(Parts, MaxQualifiers)}

References ==
    {EmptyDict} \cup
    {[references |-> r] : r \in SeqsUpTo(SeqsUpTo(Parts, 1) \ {<<>>}, MaxReferences)}

StatementBase ==
    {[what |-> "statement", entity |-> [id |-> "Q1"], property |-> "P1", value |-> v] :
        v \in ParsedValues}

AddStatementJsons ==
    {b @@ s @@ q @@ r : b \in StatementBase, s \in Summaries,
                        q \in Qualifiers, r \in References}

RemoveStatementJsons == {b @@ s : b \in StatementBase, s \in Summaries}

TermJsons ==
    {[what |-> w, item |-> "Q1", language |-> l,
      value |-> [type |-> "string", value |-> "X1"]] @@ s :
        w \in {"label", "description", "alias", "badge"}, l \in {"en", "pt"},
        s \in Summaries}

SitelinkJsons ==
    {[what |-> "sitelink", item |-> "Q1", site |-> "enwiki",
      value |-> [type |-> "string", value |-> "X1"]] @@ s : s \in Summaries}

CreateJsons == {[type |-> t] @@ s : t \in {"item", "property", "lexeme"}, s \in Summaries}

\* the key build reads for the command's kind is always present
Commands ==
    [action : {ACTION_ADD, ACTION_REMOVE, ACTION_MERGE},
     json : AddStatementJsons \cup RemoveStatementJsons \cup TermJsons \cup SitelinkJsons]
        \cup [action : {ACTION_CREATE, ACTION_MERGE}, json : CreateJsons]

HandlerClasses ==
    {"AddStatement", "AddLabelDescriptionOrAlias", "AddSitelink", "CreateItem",
     "RemoveStatement"}

\* a class is constructed directly only on a payload that has the keys it reads
Entries(cmd) ==
    {"build_and_send"}
        \cup (IF cmd.json \in AddStatementJsons THEN {"AddStatement"} ELSE {})
        \cup (IF cmd.json \in RemoveStatementJsons THEN {"RemoveStatement"} ELSE {})
        \cup (IF cmd.json \in TermJsons THEN {"AddLabelDescriptionOrAlias"} ELSE {})
        \cup (IF cmd.json \in SitelinkJsons THEN {"AddSitelink"} ELSE {})
        \cup (IF cmd.json \in CreateJsons THEN {"CreateItem"} ELSE {})

----------------------------------------------------------------------------
(* The remote API as the client reports it *)

Properties == {"P1", "P2"}

IdBase(p) == IF p = "P1" THEN 0 ELSE 10

\* a property's statement list; ids need not ascend along the list
StatementList(p, values, ascending) ==
    [k \in 1..Len(values) |->
        [id |-> IdBase(p) + (IF ascending THEN k ELSE Len(values) + 1 - k),
         value |-> values[k]]]

StatementMaps ==
    {m1 @@ m2 :
        m1 \in {EmptyDict} \cup
               {[P1 |-> StatementList("P1", vs, asc)] :
                    vs \in SeqsUpTo(ApiValues, MaxStatements), asc \in BOOLEAN},
        m2 \in {EmptyDict, [P2 |-> StatementList("P2", <<[type |-> "novalue"]>>, TRUE)]}}

----------------------------------------------------------------------------
(* ApiCommandBuilder.build: the class it selects, before constructing it *)

\* variant: create selects CreateItem for a property as well
build_createProperty(cmd) ==
    IF cmd.action = ACTION_ADD
    THEN IF cmd.json["what"] = "statement" THEN "AddStatement"
         ELSE IF cmd.json["what"] \in {"label", "description", "alias"}
              THEN "AddLabelDescriptionOrAlias"
         ELSE IF cmd.json["what"] = "sitelink" THEN "AddSitelink"
         ELSE "ApiNotImplemented"
    ELSE IF cmd.action = ACTION_CREATE
    THEN IF cmd.json["type"] \in {"item", "property"} THEN "CreateItem"
         ELSE "ApiNotImplemented"
    ELSE IF cmd.action = ACTION_REMOVE /\ cmd.json["what"] = "statement"
    THEN "RemoveStatement"
    ELSE "ApiNotImplemented"

build(cmd) ==
    IF cmd.action = ACTION_ADD
    THEN IF cmd.json["what"] = "statement" THEN "AddStatement"
         ELSE IF cmd.json["what"] \in {"label", "description", "alias"}
              THEN "AddLabelDescriptionOrAlias"
         ELSE IF cmd.json["what"] = "sitelink" THEN "AddSitelink"
         ELSE "ApiNotImplemented"
    ELSE IF cmd.action = ACTION_CREATE
    THEN IF cmd.json["type"] = "item" THEN "CreateItem"
         ELSE "ApiNotImplemented"
    ELSE IF cmd.action = ACTION_REMOVE /\ cmd.json["what"] = "statement"
    THEN "RemoveStatement"
    ELSE "ApiNotImplemented"

----------------------------------------------------------------------------
(* Utilities *)

\* Utilities.client: the exception it raises, or NoError when a client is returned
client ==
    IF hasToken THEN NoError ELSE [name |-> "NoToken"]

\* variant: the summary is dropped
_comment_none(json) ==
    ""

_comment(json) ==
    IF "summary" \in DOMAIN json THEN json["summary"] ELSE ""

\* body["comment"] = ...; body["bot"] = False (assignments override the body's keys)
full_body(body, json) ==
    ("comment" :> _comment(json) @@ "bot" :> FALSE) @@ body

----------------------------------------------------------------------------
(* AddStatement *)

\* variant: novalue and somevalue are checked like any other type
verify_data_type_noBypass(self) ==
    IF client # NoError THEN client
    ELSE LET needed_data_type == property_data_types[self.property_id] IN
         IF needed_data_type # self.data_type
         THEN [name |-> "InvalidPropertyDataType",
               args |-> <<self.property_id, self.data_type, needed_data_type>>]
         ELSE NoError

\* the exception verify_data_type raises, or NoError
verify_data_type(self) ==
    IF client # NoError THEN client
    ELSE LET needed_data_type == property_data_types[self.property_id] IN
         IF self.data_type \in {"somevalue", "novalue"} THEN NoError
         ELSE IF needed_data_type # self.data_type
              THEN [name |-> "InvalidPropertyDataType",
                    args |-> <<self.property_id, self.data_type, needed_data_type>>]
              ELSE NoError

\* a constructor yields [error, self]; self is the instance when error = NoError
AddStatement_init(cmd) ==
    LET j == cmd.json
        self == [entity_id |-> j["entity"]["id"],
                 property_id |-> j["property"],
                 parser_value |-> j["value"],
                 data_type |-> j["value"]["type"],
                 references |-> IF "references" \in DOMAIN j THEN j["references"] ELSE <<>>,
                 qualifiers |-> IF "qualifiers" \in DOMAIN j THEN j["qualifiers"] ELSE <<>>]
    IN [error |-> verify_data_type(self), self |-> self]

AddStatement_body(self) ==
    LET fix(part) == [property |-> [id |-> part["property"]],
                      value |-> parser_value_to_api_value(part["value"])]
        all_quali == [k \in 1..Len(self.qualifiers) |-> fix(self.qualifiers[k])]
        all_refs == [k \in 1..Len(self.references) |->
                        [parts |-> [n \in 1..Len(self.references[k]) |->
                                        fix(self.references[k][n])]]]
    IN [statement |-> [property |-> [id |-> self.property_id],
                       value |-> parser_value_to_api_value(self.parser_value),
                       qualifiers |-> all_quali,
                       references |-> all_refs]]

----------------------------------------------------------------------------
(* AddLabelDescriptionOrAlias *)

AddLabelDescriptionOrAlias_init(cmd) ==
    LET j == cmd.json IN
    [error |-> NoError,
     self |-> [what |-> j["what"], entity_id |-> j["item"],
               language |-> j["language"], value |-> j["value"]["value"]]]

\* variant: an alias is patched at "/<language>" too
AddLabelDescriptionOrAlias_body_noIndex(self) ==
    LET path == "/" \o self.language
    IN [patch |-> <<[op |-> "add", path |-> path, value |-> self.value]>>]

AddLabelDescriptionOrAlias_body(self) ==
    LET path == IF self.what # "alias"
                THEN "/" \o self.language
                ELSE "/" \o self.language \o "/0"
    IN [patch |-> <<[op |-> "add", path |-> path, value |-> self.value]>>]

\* the client operation send routes to, or the ValueError of its last branch
AddLabelDescriptionOrAlias_route(self) ==
    IF self.what = "label" THEN "add_label"
    ELSE IF self.what = "description" THEN "add_description"
    ELSE IF self.what = "alias" THEN "add_alias"
    ELSE "ValueError"

----------------------------------------------------------------------------
(* AddSitelink *)

AddSitelink_init(cmd) ==
    LET j == cmd.json IN
    [error |-> NoError,
     self |-> [what |-> j["what"], entity_id |-> j["item"],
               site |-> j["site"], value |-> j["value"]["value"]]]

AddSitelink_body(self) ==
    [patch |-> <<[op |-> "replace", path |-> "/" \o self.site \o "/title",
                  value |-> self.value]>>]

----------------------------------------------------------------------------
(* CreateItem *)

CreateItem_init(cmd) ==
    [error |-> NoError, self |-> EmptyDict]

CreateItem_body(self) ==
    [item |-> EmptyDict]

----------------------------------------------------------------------------
(* RemoveStatement *)

\* [error, statements]: NoToken, NoStatementsForThatProperty, or the property's list
_get_statements_for_our_property(self) ==
    IF client # NoError THEN [error |-> client, statements |-> <<>>]
    ELSE LET our_statements == IF self.property_id \in DOMAIN all_statements
                               THEN all_statements[self.property_id]
                               ELSE <<>>
         IN IF Len(our_statements) = 0
            THEN [error |-> [name |-> "NoStatementsForThatProperty",
                             args |-> <<self.entity_id, self.property_id>>],
                  statements |-> <<>>]
            ELSE [error |-> NoError, statements |-> our_statements]

\* variant: every statement of the property is taken, whatever its value
matching_ids_all(statements, api_value) ==
    [k \in 1..Len(statements) |-> statements[k]["id"]]

RECURSIVE matching_ids(_, _)
\* the loop of load_ids_to_delete: ids appended in the order of the list
matching_ids(statements, api_value) ==
    IF statements = <<>> THEN <<>>
    ELSE LET statement == Head(statements)
             rest == matching_ids(Tail(statements), api_value)
         IN IF statement["value"] = api_value
            THEN <<statement["id"]>> \o rest
            ELSE rest

\* [error, ids_to_delete]
load_ids_to_delete(self) ==
    LET got == _get_statements_for_our_property(self)
        ids_to_delete == matching_ids(got.statements, self.api_value)
    IN IF got.error # NoError THEN [error |-> got.error, ids_to_delete |-> <<>>]
       ELSE IF Len(ids_to_delete) = 0
            THEN [error |-> [name |-> "NoStatementsWithThatValue",
                             args |-> <<self.entity_id, self.property_id,
                                        self.parser_value["value"]>>],
                  ids_to_delete |-> <<>>]
            ELSE [error |-> NoError, ids_to_delete |-> ids_to_delete]

RemoveStatement_init(cmd) ==
    LET j == cmd.json
        self == [entity_id |-> j["entity"]["id"],
                 property_id |-> j["property"],
                 parser_value |-> j["value"],
                 api_value |-> parser_value_to_api_value(j["value"])]
        loaded == load_ids_to_delete(self)
    IN [error |-> loaded.error,
        self |-> self @@ [ids_to_delete |-> loaded.ids_to_delete]]

RemoveStatement_body(self) ==
    EmptyDict

----------------------------------------------------------------------------
(* Construction and the body of whichever class was selected *)

Construct(cls, cmd) ==
    CASE cls = "AddStatement" -> AddStatement_init(cmd)
      [] cls = "AddLabelDescriptionOrAlias" -> AddLabelDescriptionOrAlias_init(cmd)
      [] cls = "AddSitelink" -> AddSitelink_init(cmd)
      [] cls = "CreateItem" -> CreateItem_init(cmd)
      [] cls = "RemoveStatement" -> RemoveStatement_init(cmd)

body(cls, self) ==
    CASE cls = "AddStatement" -> AddStatement_body(self)
      [] cls = "AddLabelDescriptionOrAlias" -> AddLabelDescriptionOrAlias_body(self)
      [] cls = "AddSitelink" -> AddSitelink_body(self)
      [] cls = "CreateItem" -> CreateItem_body(self)
      [] cls = "RemoveStatement" -> RemoveStatement_body(self)

----------------------------------------------------------------------------
(* State machine *)

\* the class the run constructs; the remote state varies only where that class reads it
Target(cmd, how) ==
    IF how = "build_and_send" THEN build(cmd) ELSE how

Init ==
    /\ command \in Commands
    /\ entry \in Entries(command)
    /\ hasToken \in BOOLEAN
    /\ property_data_types \in
           IF Target(command, entry) = "AddStatement"
           THEN [Properties -> DataTypes]
           ELSE {[p \in Properties |-> "string"]}
    /\ all_statements \in
           IF Target(command, entry) = "RemoveStatement"
           THEN StatementMaps
           ELSE {EmptyDict}
    /\ pc = "start"
    /\ api_command = "none"
    /\ handler = EmptyDict
    /\ error = NoError
    /\ sent_body = EmptyDict
    /\ responses = <<>>
    /\ result = NoResult
    /\ calls = <<>>
    /\ deleted = {}

world == <<command, entry, hasToken, property_data_types, all_statements>>

\* variant: the constructor's exception is swallowed and the instance is used
Constructed_swallow(cls) ==
    LET made == Construct(cls, command) IN
    /\ api_command' = cls
    /\ handler' = made.self
    /\ pc' = "built"
    /\ error' = NoError

\* the constructor of cls runs to its end: the instance, or the exception it raised
Constructed(cls) ==
    LET made == Construct(cls, command) IN
    /\ api_command' = cls
    /\ IF made.error = NoError
       THEN /\ handler' = made.self
            /\ pc' = "built"
            /\ error' = NoError
       ELSE /\ handler' = EmptyDict
            /\ pc' = "build_failed"
            /\ error' = made.error

\* build_and_send, first half: api_command = self.build()
Build ==
    /\ pc = "start"
    /\ entry = "build_and_send"
    /\ IF build(command) = "ApiNotImplemented"
       THEN /\ pc' = "build_failed"
            /\ error' = [name |-> "ApiNotImplemented"]
            /\ UNCHANGED <<api_command, handler>>
       ELSE Constructed(build(command))
    /\ UNCHANGED <<world, sent_body, responses, result, calls, deleted>>

\* a caller constructs the handler class itself
ConstructDirectly ==
    /\ pc = "start"
    /\ entry \in HandlerClasses
    /\ Constructed(entry)
    /\ UNCHANGED <<world, sent_body, responses, result, calls, deleted>>

\* one mutating client operation, as logged: it returned res, or it raised
Call(op, args, ok, res) ==
    [op |-> op, args |-> args, ok |-> ok, res |-> IF ok THEN res ELSE NoResult]

SendFails(err) ==
    /\ pc' = "send_failed"
    /\ error' = err
    /\ UNCHANGED <<result, responses, sent_body, deleted>>

SendReturns(res) ==
    /\ pc' = "done"
    /\ result' = res
    /\ UNCHANGED <<error, responses, sent_body, deleted>>

\* full_body = self.full_body()
SentBody(cls) ==
    full_body(body(cls, handler), command.json)

\* send of a handler that invokes one client operation with args
SendOne(cls, op, args) ==
    /\ pc = "built"
    /\ api_command = cls
    /\ IF client # NoError
       THEN SendFails(client) /\ UNCHANGED calls
       ELSE IF op = "ValueError"
       THEN SendFails([name |-> "ValueError"]) /\ UNCHANGED calls
       ELSE \E ok \in BOOLEAN, res \in Responses :
               /\ calls' = Append(calls, Call(op, args, ok, res))
               /\ IF ok THEN SendReturns(res) ELSE SendFails([name |-> "ClientError"])
    /\ UNCHANGED <<world, api_command, handler>>

AddStatement_send ==
    SendOne("AddStatement", "add_statement",
            <<handler.entity_id, SentBody("AddStatement")>>)

AddLabelDescriptionOrAlias_send ==
    SendOne("AddLabelDescriptionOrAlias", AddLabelDescriptionOrAlias_route(handler),
            <<handler.entity_id, SentBody("AddLabelDescriptionOrAlias")>>)

AddSitelink_send ==
    SendOne("AddSitelink", "add_sitelink",
            <<handler.entity_id, SentBody("AddSitelink")>>)

CreateItem_send ==
    SendOne("CreateItem", "create_item", <<SentBody("CreateItem")>>)

\* RemoveStatement.send up to the loop: full_body, client, responses = []
RemoveStatement_send ==
    /\ pc = "built"
    /\ api_command = "RemoveStatement"
    /\ IF client # NoError
       THEN SendFails(client)
       ELSE /\ sent_body' = full_body(RemoveStatement_body(handler), command.json)
            /\ responses' = <<>>
            /\ pc' = "sending"
            /\ UNCHANGED <<error, result, deleted>>
    /\ UNCHANGED <<world, api_command, handler, calls>>

\* variant: each response is put in front of the earlier ones
RemoveStatement_delete_prepend ==
    /\ pc = "sending"
    /\ Len(responses) < Len(handler.ids_to_delete)
    /\ LET id == handler.ids_to_delete[Len(responses) + 1] IN
       \E ok \in BOOLEAN, res \in Responses :
          /\ calls' = Append(calls, Call("delete_statement", <<id, sent_body>>, ok, res))
          /\ IF ok
             THEN /\ responses' = <<res>> \o responses
                  /\ deleted' = deleted \cup {id}
                  /\ UNCHANGED <<pc, error, result, sent_body>>
             ELSE SendFails([name |-> "ClientError"])
    /\ UNCHANGED <<world, api_command, handler>>

\* variant: a failed deletion is skipped and the loop goes on
RemoveStatement_delete_continue ==
    /\ pc = "sending"
    /\ Len(responses) < Len(handler.ids_to_delete)
    /\ LET id == handler.ids_to_delete[Len(responses) + 1] IN
       \E ok \in BOOLEAN, res \in Responses :
          /\ calls' = Append(calls, Call("delete_statement", <<id, sent_body>>, ok, res))
          /\ IF ok
             THEN /\ responses' = Append(responses, res)
                  /\ deleted' = deleted \cup {id}
                  /\ UNCHANGED <<pc, error, result, sent_body>>
             ELSE /\ responses' = Append(responses, NoResult)
                  /\ UNCHANGED <<pc, error, result, sent_body, deleted>>
    /\ UNCHANGED <<world, api_command, handler>>

\* one iteration of the loop over self.ids_to_delete
RemoveStatement_delete ==
    /\ pc = "sending"
    /\ Len(responses) < Len(handler.ids_to_delete)
    /\ LET id == handler.ids_to_delete[Len(responses) + 1] IN
       \E ok \in BOOLEAN, res \in Responses :
          /\ calls' = Append(calls, Call("delete_statement", <<id, sent_body>>, ok, res))
          /\ IF ok
             THEN /\ responses' = Append(responses, res)
                  /\ deleted' = deleted \cup {id}
                  /\ UNCHANGED <<pc, error, result, sent_body>>
             ELSE SendFails([name |-> "ClientError"])
    /\ UNCHANGED <<world, api_command, handler>>

\* the loop is over: return responses
RemoveStatement_return ==
    /\ pc = "sending"
    /\ Len(responses) = Len(handler.ids_to_delete)
    /\ pc' = "done"
    /\ result' = responses
    /\ UNCHANGED <<world, api_command, handler, error, sent_body, responses, calls,
                   deleted>>

Next ==
    \/ Build
    \/ ConstructDirectly
    \/ AddStatement_send
    \/ AddLabelDescriptionOrAlias_send
    \/ AddSitelink_send
    \/ CreateItem_send
    \/ RemoveStatement_send
    \/ RemoveStatement_delete
    \/ RemoveStatement_return

Spec == Init /\ [][Next]_vars

----------------------------------------------------------------------------
(* Properties *)

Kind(cmd) ==
    IF cmd.action = ACTION_CREATE THEN cmd.json["type"]
    ELSE IF "what" \in DOMAIN cmd.json THEN cmd.json["what"]
    ELSE cmd.json["type"]

DispatchTable ==
    {<<"add", "statement", "AddStatement">>,
     <<"add", "label", "AddLabelDescriptionOrAlias">>,
     <<"add", "description", "AddLabelDescriptionOrAlias">>,
     <<"add", "alias", "AddLabelDescriptionOrAlias">>,
     <<"add", "sitelink", "AddSitelink">>,
     <<"create", "item", "CreateItem">>,
     <<"remove", "statement", "RemoveStatement">>}

\* C1: once build has run, the class whose constructor was entered is the one
\* the dispatch table gives for (action, kind); for every pair outside the table
\* the run has failed with ApiNotImplemented and no constructor was entered.
C1_BuildIsTotalDispatch ==
    (entry = "build_and_send" /\ pc # "start") =>
        LET rows == {row \in DispatchTable :
                        row[1] = command.action /\ row[2] = Kind(command)}
        IN IF rows # {}
           THEN \A row \in rows : api_command = row[3]
           ELSE /\ api_command = "none"
                /\ handler = EmptyDict
                /\ pc = "build_failed"
                /\ error = [name |-> "ApiNotImplemented"]

C1_Witness ==
    /\ entry = "build_and_send"
    /\ command.action = "create"
    /\ command.json["type"] = "property"
    /\ pc = "build_failed"
    /\ error = [name |-> "ApiNotImplemented"]

Declared == command.json["value"]["type"]

Expected == property_data_types[command.json["property"]]

Mismatch == Declared \notin {"novalue", "somevalue"} /\ Declared # Expected

AddStatementTried == api_command = "AddStatement" /\ pc # "start"

TypeCheckOutcome ==
    IF Mismatch
    THEN /\ pc = "build_failed"
         /\ error = [name |-> "InvalidPropertyDataType",
                     args |-> <<command.json["property"], Declared, Expected>>]
    ELSE pc # "build_failed"

\* C2 as stated: construction of AddStatement fails with InvalidPropertyDataType
\* exactly on a type mismatch, and succeeds otherwise.
C2_Original ==
    AddStatementTried => TypeCheckOutcome

\* C2 amended: with a token for the batch's user, construction of AddStatement
\* fails with InvalidPropertyDataType(property, declared, expected) exactly on a
\* mismatch of a declared type other than novalue/somevalue, and succeeds
\* otherwise; with no token it fails with NoToken whatever the declared type.
C2_VerifyDataType ==
    AddStatementTried =>
        IF hasToken
        THEN TypeCheckOutcome
        ELSE pc = "build_failed" /\ error = [name |-> "NoToken"]

C2_Witness ==
    /\ AddStatementTried
    /\ hasToken
    /\ Declared = "string"
    /\ Expected = "quantity"
    /\ pc = "build_failed"
    /\ error.name = "InvalidPropertyDataType"

RemoveStatementTried == api_command = "RemoveStatement" /\ pc # "start"

OurStatements ==
    IF command.json["property"] \in DOMAIN all_statements
    THEN all_statements[command.json["property"]]
    ELSE <<>>

TargetValue == parser_value_to_api_value(command.json["value"])

MatchingIds ==
    {OurStatements[k]["id"] : k \in {n \in DOMAIN OurStatements :
                                        OurStatements[n]["value"] = TargetValue}}

Range(seq) == {seq[k] : k \in DOMAIN seq}

LookupOutcome ==
    IF OurStatements = <<>>
    THEN pc = "build_failed" /\ error.name = "NoStatementsForThatProperty"
    ELSE IF MatchingIds = {}
    THEN pc = "build_failed" /\ error.name = "NoStatementsWithThatValue"
    ELSE /\ pc # "build_failed"
         /\ Range(handler.ids_to_delete) = MatchingIds
         /\ Len(handler.ids_to_delete) = Cardinality(MatchingIds)

\* C3 as stated: construction of RemoveStatement fails with
\* NoStatementsForThatProperty or NoStatementsWithThatValue, or succeeds with
\* exactly the matching ids, as the entity's statements decide.
C3_Original ==
    RemoveStatementTried => LookupOutcome

\* C3 amended: with a token for the batch's user, construction of
\* RemoveStatement fails with NoStatementsForThatProperty when the property has
\* no statements, with NoStatementsWithThatValue when none of them has the
\* translated target value, and otherwise succeeds with ids_to_delete holding
\* exactly the matching ids; with no token it fails with NoToken.
C3_LoadIdsToDelete ==
    RemoveStatementTried =>
        IF hasToken
        THEN LookupOutcome
        ELSE pc = "build_failed" /\ error = [name |-> "NoToken"]

C3_Witness ==
    /\ RemoveStatementTried
    /\ hasToken
    /\ Len(OurStatements) = 1
    /\ OurStatements[1]["value"] = [type |-> "value", content |-> "X1"]
    /\ TargetValue = [type |-> "value", content |-> "X2"]
    /\ pc = "build_failed"
    /\ error.name = "NoStatementsWithThatValue"

\* C4: when RemoveStatement.send has returned, the deletions invoked are one per
\* id of ids_to_delete in its order, which is the order of the statement list;
\* the result has one response per deletion, the i-th being the i-th call's;
\* the ids deleted remotely are exactly those of ids_to_delete.
C4_SendDeletesEachInOrder ==
    (api_command = "RemoveStatement" /\ pc = "done") =>
        LET ids == handler.ids_to_delete IN
        /\ Len(calls) = Len(ids)
        /\ Len(result) = Len(ids)
        /\ \A i \in DOMAIN calls :
              /\ calls[i].op = "delete_statement"
              /\ calls[i].args[1] = ids[i]
              /\ calls[i].ok
              /\ result[i] = calls[i].res
        /\ \A i, j \in DOMAIN ids :
              i < j => \E a, b \in DOMAIN OurStatements :
                          /\ a < b
                          /\ OurStatements[a]["id"] = ids[i]
                          /\ OurStatements[b]["id"] = ids[j]
        /\ deleted = Range(ids)

C4_Witness ==
    /\ api_command = "RemoveStatement"
    /\ pc = "done"
    /\ Len(calls) = 2
    /\ calls[1].args[1] > calls[2].args[1]
    /\ result = <<"r1", "r2">>

OwnKeys(op) ==
    CASE op = "add_statement" -> {"statement"}
      [] op \in {"add_label", "add_description", "add_alias", "add_sitelink"} -> {"patch"}
      [] op = "create_item" -> {"item"}
      [] op = "delete_statement" -> {}

BodyOf(call) == call.args[Len(call.args)]

\* C5: the body of every mutating client operation invoked has the handler's
\* own keys plus "comment", equal to the command's summary or "" when it has
\* none, and "bot", equal to FALSE.
C5_BodiesCarryCommentAndBot ==
    \A k \in DOMAIN calls :
        LET b == BodyOf(calls[k]) IN
        /\ DOMAIN b = OwnKeys(calls[k].op) \cup {"comment", "bot"}
        /\ b["comment"] = IF "summary" \in DOMAIN command.json
                          THEN command.json["summary"]
                          ELSE ""
        /\ b["bot"] = FALSE

C5_Witness ==
    /\ Len(calls) = 2
    /\ calls[2].op = "delete_statement"
    /\ "summary" \in DOMAIN command.json
    /\ BodyOf(calls[2])["comment"] = "s1"

\* the translations the run has produced, each with the parsed value it came from
Translations ==
    (IF api_command = "RemoveStatement" /\ handler # EmptyDict
     THEN {<<handler.parser_value, handler.api_value>>}
     ELSE {})
    \cup {<<command.json["value"], BodyOf(calls[k])["statement"]["value"]>> :
            k \in {n \in DOMAIN calls : calls[n].op = "add_statement"}}

\* C6: every translation the run produces is type-only for a novalue or
\* somevalue parsed value, and {type: "value", content: X} for any other
\* parsed value of content X, whatever its data type.
C6_ValueTranslation ==
    \A t \in Translations :
        IF t[1]["type"] \in {"novalue", "somevalue"}
        THEN DOMAIN t[2] = {"type"} /\ t[2]["type"] = t[1]["type"]
        ELSE /\ DOMAIN t[2] = {"type", "content"}
             /\ t[2]["type"] = "value"
             /\ t[2]["content"] = t[1]["value"]

C6_Witness ==
    /\ Len(calls) = 1
    /\ calls[1].op = "add_statement"
    /\ command.json["value"] = [type |-> "quantity", value |-> "X2"]
    /\ BodyOf(calls[1])["statement"]["value"] = [type |-> "value", content |-> "X2"]

\* C7: a translation of a novalue or somevalue parsed value is API-shaped
\* (type only), and translating it again returns it unchanged.
C7_TranslationIdempotent ==
    \A t \in Translations :
        t[1]["type"] \in {"novalue", "somevalue"} =>
            /\ t[2] \in {[type |-> "novalue"], [type |-> "somevalue"]}
            /\ parser_value_to_api_value(t[2]) = t[2]

C7_Witness ==
    /\ api_command = "RemoveStatement"
    /\ pc = "built"
    /\ handler.parser_value["type"] = "somevalue"
    /\ parser_value_to_api_value(handler.api_value) = [type |-> "somevalue"]

TermTried ==
    api_command = "AddLabelDescriptionOrAlias" /\ pc \in {"built", "done", "send_failed"}

TermSent == api_command = "AddLabelDescriptionOrAlias" /\ pc \in {"done", "send_failed"}

TermPaths ==
    {<<"label", "en", "/en">>, <<"description", "en", "/en">>, <<"badge", "en", "/en">>,
     <<"alias", "en", "/en/0">>,
     <<"label", "pt", "/pt">>, <<"description", "pt", "/pt">>, <<"badge", "pt", "/pt">>,
     <<"alias", "pt", "/pt/0">>}

TermOps ==
    {<<"label", "add_label">>, <<"description", "add_description">>,
     <<"alias", "add_alias">>}

\* the body is one JSON-patch "add" operation at the path of the kind and language
TermBodyShape ==
    LET b == AddLabelDescriptionOrAlias_body(handler) IN
    /\ DOMAIN b = {"patch"}
    /\ Len(b["patch"]) = 1
    /\ b["patch"][1]["op"] = "add"
    /\ <<handler.what, handler.language, b["patch"][1]["path"]>> \in TermPaths
    /\ b["patch"][1]["value"] = command.json["value"]["value"]

\* send has invoked exactly the one operation of the kind, with that body, or
\* for a kind outside the three it has failed with ValueError invoking nothing
TermRouting ==
    IF handler.what \in {"label", "description", "alias"}
    THEN /\ Len(calls) = 1
         /\ <<handler.what, calls[1].op>> \in TermOps
         /\ calls[1].args[1] = command.json["item"]
         /\ BodyOf(calls[1])["patch"] = AddLabelDescriptionOrAlias_body(handler)["patch"]
    ELSE /\ calls = <<>>
         /\ pc = "send_failed"
         /\ error = [name |-> "ValueError"]

\* C8 as stated: the body is one "add" patch at "/<language>" ("/<language>/0"
\* for alias), send invokes exactly one client operation matching the kind, and
\* a kind outside the three fails with a generic error invoking nothing.
C8_Original ==
    /\ TermTried => TermBodyShape
    /\ TermSent => TermRouting

\* C8 amended: the body is as stated; with a token for the batch's user send
\* invokes exactly the one client operation matching the kind, and a kind
\* outside the three fails with ValueError invoking nothing; with no token send
\* fails with NoToken for every kind and invokes nothing.
C8_TermBodyAndRouting ==
    /\ TermTried => TermBodyShape
    /\ TermSent =>
          IF hasToken
          THEN TermRouting
          ELSE calls = <<>> /\ pc = "send_failed" /\ error = [name |-> "NoToken"]

C8_Witness ==
    /\ TermSent
    /\ handler.what = "alias"
    /\ handler.language = "en"
    /\ Len(calls) = 1
    /\ calls[1].op = "add_alias"
    /\ BodyOf(calls[1])["patch"][1]["path"] = "/en/0"

ConstructionErrors ==
    {"ApiNotImplemented", "InvalidPropertyDataType", "NoToken",
     "NoStatementsForThatProperty", "NoStatementsWithThatValue"}

\* what the selected class's constructor does on this command and remote state
ConstructionSucceeds ==
    /\ build(command) # "ApiNotImplemented"
    /\ Construct(build(command), command).error = NoError

\* C9: in a run of build_and_send a mutating client operation is invoked only
\* once construction has succeeded and with the body computed from the
\* constructed handler; when construction fails nothing is invoked, nothing is
\* returned and one of the construction errors reaches the caller; no call is
\* repeated, and a handler other than RemoveStatement invokes at most one.
C9_ConstructThenBodyThenSend ==
    entry = "build_and_send" =>
        /\ calls # <<>> =>
              /\ ConstructionSucceeds
              /\ pc \in {"sending", "done", "send_failed"}
              /\ \A k \in DOMAIN calls :
                    BodyOf(calls[k]) =
                        full_body(body(api_command, handler), command.json)
        /\ ~ConstructionSucceeds =>
              /\ pc \in {"start", "build_failed"}
              /\ calls = <<>>
              /\ result = NoResult
              /\ deleted = {}
              /\ pc = "build_failed" => error.name \in ConstructionErrors
        /\ pc \in {"built", "sending", "done", "send_failed"} => ConstructionSucceeds
        /\ \A i, k \in DOMAIN calls : i # k => calls[i].args # calls[k].args
        /\ api_command # "RemoveStatement" => Len(calls) <= 1

C9_Witness ==
    /\ entry = "build_and_send"
    /\ api_command = "AddStatement"
    /\ pc = "build_failed"
    /\ error.name = "InvalidPropertyDataType"
    /\ calls = <<>>

\* C10: a failed delete_statement call is the last call of the run: the error
\* reaches the caller and nothing is returned, the deletions before it were
\* exactly those of the ids before it and stay performed, no later id is
\* tried, and ids_to_delete is what construction left.
C10_FailedDeleteStopsSend ==
    \A k \in DOMAIN calls :
        (calls[k].op = "delete_statement" /\ ~calls[k].ok) =>
            LET ids == handler.ids_to_delete IN
            /\ k = Len(calls)
            /\ pc = "send_failed"
            /\ error = [name |-> "ClientError"]
            /\ result = NoResult
            /\ \A i \in 1..k : calls[i].args[1] = ids[i]
            /\ \A i \in 1..(k - 1) : calls[i].ok
            /\ deleted = {ids[i] : i \in 1..(k - 1)}
            /\ ids = RemoveStatement_init(command).self.ids_to_delete

C10_Witness ==
    /\ api_command = "RemoveStatement"
    /\ pc = "send_failed"
    /\ Len(handler.ids_to_delete) = 2
    /\ Len(calls) = 2
    /\ ~calls[2].ok
    /\ deleted = {handler.ids_to_delete[1]}

====
